---- MODULE Spec2Model ----
(***************************************************************************)
(* State-machine model of the SAC / DistSAC trainers (src/SAC.py,          *)
(* src/DistSAC.py) and of the metrics meters and logger (src/logger.py).   *)
(*                                                                         *)
(* Numbers are fixed point integers:                                       *)
(*   discount and critic targets     in hundredths   (0.99  = 99)           *)
(*   mask_noise                      in hundredths   (0.9   = 90)           *)
(*   state and goal coordinates      in millionths   (1e-5  = 10)           *)
(*   network parameters              in millionths   (1.0   = 1000000)      *)
(*   tau                             in thousandths  (0.005 = 5)            *)
(* A network is represented by one scalar parameter; an optimizer step     *)
(* replaces it by any value of ParamVals (the gradient is not modelled).   *)
(***************************************************************************)
EXTENDS Integers, Sequences, FiniteSets, TLC

(* ------------------------------ bounds -------------------------------- *)
MaxStep == 3
MaxFreq == 2
MaxCalls == 2
MaxWindow == 4
MaxUpdates == 5
MaxDumps == 2
MaxCount == 2
MaxGoals == 2
MaxCandidates == 2

(* --------------------------- program constants ------------------------ *)
DefaultDiscount == 99
DefaultTau == 5
SameGoalThreshold == 90
DoneTol == 10

(* ------------------------------ input sets ---------------------------- *)
None == "None"
\* an optional number: NoValue for None / a missing file, <<x>> for x
NoValue == <<>>
Kinds == {"SAC", "DistSAC"}
ParamVals == {0, 1000000}
LogAlphaVals == {0, -1000000}
TauVals == {DefaultTau, 500}
EntropyVals == {NoValue, <<-1>>}
ExplCoefVals == {0, 1}
VVals == {-2, 3}
Timesteps == {1, 2}
Origin == <<0, 0>>
StatePoints == {Origin, <<6, 8>>}
GoalPoints == {Origin, <<3, 4>>, <<6, 8>>, <<30000, 0>>}
NoiseVals == {50, 90, 91}

VARIABLES
  kind,            \* which trainer class the object is: "SAC" or "DistSAC"
  actor,           \* self.actor parameters
  critic,          \* self.critic parameters
  critic_target,   \* self.critic_target parameters
  log_alpha,       \* self.log_alpha
  files,           \* checkpoint files on disk: file name -> contents or None
  pc,              \* position inside train(), or the last finished call
  args,            \* arguments of the train() call in progress / last finished
  batch,           \* rows returned by replay_buffer.sample
  goals,           \* DistSAC: relabelled goal of every row
  same_goal_mask,  \* DistSAC: per row
  traj_goal_mask,  \* DistSAC: per row
  reward,          \* per row, the local `reward` of train()
  done,            \* per row, the local `done` of train()
  target_V,        \* per row, V' produced by the actor and the target critic
  target_Q,        \* per row, critic regression target (hundredths)
  ops,             \* optimizer / soft-update steps taken by the current call
  Llog,            \* L.log(...) calls made by the current call
  nCalls,          \* history: number of train() calls started
  num_candidates,  \* DistSAC.num_candidates
  use_l2,          \* DistSAC.use_l2
  dq,              \* the last get_distance call: its inputs and what it returned
  window_size,     \* MovingAverageMeter.window_size
  vals,            \* MovingAverageMeter.vals, slots 0 .. window_size - 1
  counts,          \* MovingAverageMeter.counts
  pointer,         \* MovingAverageMeter.pointer
  hist,            \* history: the updates since construction or reset()
  format_type,     \* Logger.format_type
  log_type,        \* Logger.log_type
  log_file,        \* lines written to Logger.log_file, None without a file
  console,         \* lines printed to standard output
  total_timesteps, \* tracker.meters['total_timesteps'].n (an IntegerMeter)
  dump_result,     \* how the last dump() call ended
  nDumps,          \* history: number of dump() calls made
  io,              \* the save or load call that has just returned, if any
  saved,           \* history: per timestep, (actor, critic) at the last save
  actor_cfg,       \* Actor: log_std_min, log_std_max and only_pos
  fw               \* the last Actor.forward call: its inputs and how it ended

trainerVars == <<kind, actor, critic, critic_target, log_alpha>>
callVars == <<args, batch, goals, same_goal_mask, traj_goal_mask, reward,
              done, target_V, target_Q, ops, Llog>>
trainVars == <<kind, actor, critic, critic_target, log_alpha, files, pc,
               args, batch, goals, same_goal_mask, traj_goal_mask, reward,
               done, target_V, target_Q, ops, Llog, nCalls, io, saved>>
distVars == <<num_candidates, use_l2, dq>>
meterVars == <<window_size, vals, counts, pointer, hist>>
loggerVars == <<format_type, log_type, log_file, console, total_timesteps,
                dump_result, nDumps>>
actorVars == <<actor_cfg, fw>>
vars == <<kind, actor, critic, critic_target, log_alpha, files, pc, args,
          batch, goals, same_goal_mask, traj_goal_mask, reward, done,
          target_V, target_Q, ops, Llog, nCalls, num_candidates, use_l2, dq,
          window_size, vals, counts, pointer, hist, format_type, log_type,
          log_file, console, total_timesteps, dump_result, nDumps,
          actor_cfg, fw, io, saved>>

(* ------------------------------ helpers ------------------------------- *)
RECURSIVE SeqSum(_)
SeqSum(s) == IF s = <<>> THEN 0 ELSE Head(s) + SeqSum(Tail(s))

Min2(a, b) == IF a <= b THEN a ELSE b
Max2(a, b) == IF a >= b THEN a ELSE b

\* floor of the square root of a natural number (Newton iteration)
RECURSIVE ISqrtFrom(_, _)
ISqrtFrom(n, x) ==
  LET y == (x + n \div x) \div 2
  IN  IF y >= x THEN x ELSE ISqrtFrom(n, y)
ISqrt(n) == IF n = 0 THEN 0 ELSE ISqrtFrom(n, n)

(* ---------------------- pure parts of train() ------------------------- *)
\* done = torch.FloatTensor(1 - done): the local `done` of SAC.train is the
\* complement of the buffer's done flag
SACDone(bufDone) == 1 - bufDone

\* expl_bonus = dist * expl_coef
ExplBonus(dist, expl_coef) == dist * expl_coef

\* reward += expl_bonus.detach(), only when expl_coef > 0
SACReward(row, expl_coef) ==
  IF expl_coef > 0 THEN row.reward + ExplBonus(row.dist, expl_coef)
  ELSE row.reward

\* faulty variant: the comparison is >= instead of >
SameGoalMaskInclusive(noise) == IF noise >= SameGoalThreshold THEN 1 ELSE 0
\* same_goal_mask = (mask_noise > 0.9).float()
SameGoalMask(noise) == IF noise > SameGoalThreshold THEN 1 ELSE 0

\* traj_goal_mask = 1 - same_goal_mask
TrajGoalMask(same) == 1 - same

\* the two assert statements on the masks, over the whole batch; a norm of
\* integers is below 1e-3 exactly when every entry is 0
MaskAssertsHold(same, traj) ==
  /\ \A i \in DOMAIN same : (same[i] + traj[i]) - 1 = 0
  /\ \A i \in DOMAIN same : same[i] * traj[i] = 0

\* goals = state * same_goal_mask + goals * traj_goal_mask
RelabelGoal(state, goal, same, traj) ==
  [i \in DOMAIN state |-> state[i] * same + goal[i] * traj]

\* (state - goals).norm(dim=-1), rounded down to a whole number of millionths
Norm(v) == ISqrt(SeqSum([i \in DOMAIN v |-> v[i] * v[i]]))
VecSub(a, b) == [i \in DOMAIN a |-> a[i] - b[i]]

\* faulty variant: the comparison is <= instead of <
DistDoneInclusive(state, goal) ==
  IF Norm(VecSub(state, goal)) <= DoneTol THEN 1 ELSE 0
\* done = ((state - goals).norm(dim=-1, keepdim=True) < 1e-5).float()
DistDone(state, goal) == IF Norm(VecSub(state, goal)) < DoneTol THEN 1 ELSE 0

\* reward = -(1 - done)
DistReward(d) == -(1 - d)

\* faulty variant: the bootstrap is not masked by done
SACTargetQNoMask(r, d, discount, v) == 100 * r + discount * v
\* target_Q = reward + (done * discount * target_V), in hundredths
SACTargetQ(r, d, discount, v) == 100 * r + (d * discount * v)

\* target_Q = reward + (1 - done) * discount * target_V, in hundredths
DistTargetQ(r, d, discount, v) == 100 * r + (1 - d) * discount * v

\* L.log(key, value, step, n): the third argument binds to step and the
\* fourth to n; the logged value is a float loss or sum and is not modelled
LogCall(key, third, fourth) == [key |-> key, step |-> third, n |-> fourth]

(* --------------------------- checkpoint files ------------------------- *)
Directory == "run"

\* faulty variant: the file name leaves the timestep out
ActorFileNoStep(k, directory, timestep) ==
  directory \o "/model/" \o (IF k = "SAC" THEN "actor" ELSE "dist_actor")
            \o ".pt"

\* '%s/model/actor_%s.pt' (SAC), '%s/model/dist_actor_%s.pt' (DistSAC)
ActorFile(k, directory, timestep) ==
  directory \o "/model/" \o (IF k = "SAC" THEN "actor_" ELSE "dist_actor_")
            \o ToString(timestep) \o ".pt"

\* '%s/model/critic_%s.pt' (SAC), '%s/model/dist_critic_%s.pt' (DistSAC)
CriticFile(k, directory, timestep) ==
  directory \o "/model/" \o (IF k = "SAC" THEN "critic_" ELSE "dist_critic_")
            \o ToString(timestep) \o ".pt"

FileNames ==
  {ActorFile(k, Directory, t) : k \in Kinds, t \in Timesteps}
    \cup {CriticFile(k, Directory, t) : k \in Kinds, t \in Timesteps}

(* ------------------------------ soft update --------------------------- *)
\* utils.soft_update_params(net, target_net, tau): the new value of a
\* target parameter, tau * net + (1 - tau) * target_net, rounded down
soft_update_params(net, target_net, tau) ==
  (tau * net + (1000 - tau) * target_net) \div 1000

\* faulty variant: source and destination network are swapped
SoftUpdatedSwapped(c, t, tau) ==
  [critic |-> soft_update_params(t, c, tau), critic_target |-> t]
\* utils.soft_update_params(self.critic, self.critic_target, tau): the two
\* networks after the call
SoftUpdated(c, t, tau) ==
  [critic |-> c, critic_target |-> soft_update_params(c, t, tau)]

(* ------------------------------ construction -------------------------- *)
\* self.critic_target.load_state_dict(self.critic.state_dict()): the target
\* critic's own random initialisation t0 is replaced by a copy of the critic
InitTarget(c, t0) == c

NoArgs ==
  [step |-> 0, batch_size |-> 0, discount |-> DefaultDiscount,
   tau |-> DefaultTau, policy_freq |-> 1, target_entropy |-> NoValue,
   expl_coef |-> 0]

\* no train() call is in progress or remembered
NoCall ==
  /\ args = NoArgs
  /\ batch = <<>>
  /\ goals = <<>>
  /\ same_goal_mask = <<>>
  /\ traj_goal_mask = <<>>
  /\ reward = <<>>
  /\ done = <<>>
  /\ target_V = <<>>
  /\ target_Q = <<>>
  /\ ops = <<>>
  /\ Llog = <<>>

ClearCall ==
  /\ args' = NoArgs
  /\ batch' = <<>>
  /\ goals' = <<>>
  /\ same_goal_mask' = <<>>
  /\ traj_goal_mask' = <<>>
  /\ reward' = <<>>
  /\ done' = <<>>
  /\ target_V' = <<>>
  /\ target_Q' = <<>>
  /\ ops' = <<>>
  /\ Llog' = <<>>

\* neither save nor load has just returned
NoIo == [op |-> "none", directory |-> "", timestep |-> 0]
\* no save has been made
NoSaves == [t \in Timesteps |-> NoValue]

\* positions at which no call is in progress
IdlePcs == {"constructed", "done", "saved", "loaded", "load_failed"}

\* np.log(initial_temperature), for an initial temperature of 1
InitialLogAlpha == 0

TrainerInit ==
  /\ kind \in Kinds
  /\ actor \in ParamVals
  /\ critic \in ParamVals
  /\ \E t0 \in ParamVals : critic_target = InitTarget(critic, t0)
  /\ log_alpha = InitialLogAlpha
  /\ files = [f \in FileNames |-> NoValue]
  /\ pc = "constructed"
  /\ NoCall
  /\ nCalls = 0
  /\ io = NoIo
  /\ saved = NoSaves

\* SAC.__init__ / DistSAC.__init__ on an existing process: a new trainer of
\* the same class replaces the old one; the files on disk stay
Construct ==
  /\ pc \in IdlePcs
  /\ actor' \in ParamVals
  /\ critic' \in ParamVals
  /\ \E t0 \in ParamVals : critic_target' = InitTarget(critic', t0)
  /\ log_alpha' = InitialLogAlpha
  /\ pc' = "constructed"
  /\ ClearCall
  /\ io' = NoIo
  /\ UNCHANGED <<kind, files, nCalls, saved>>
  /\ UNCHANGED <<distVars, meterVars, loggerVars, actorVars>>

(* -------------------------------- train ------------------------------- *)
\* what replay_buffer.sample returns for one transition; dist is the value
\* dist_policy.get_distance returns for the row (read only when expl_coef > 0)
Row(state, goal, r, d, noise, dist) ==
  [state |-> state, goal |-> goal, reward |-> r, done |-> d,
   mask_noise |-> noise, dist |-> dist]

\* L.log('train/batch_reward', reward.sum().item(), reward.size(0), step)
SACBatchRewardLog(step, rows) == LogCall("train/batch_reward", rows, step)

\* L.log('train/expl_bonus', expl_bonus.sum().item(), step, n=expl_bonus.size(0))
ExplBonusLog(step, rows) == LogCall("train/expl_bonus", step, rows)

\* L.log('train/dist_batch_reward', reward.sum().item(), step, n=reward.size(0))
DistBatchRewardLog(step, rows) == LogCall("train/dist_batch_reward", step, rows)

\* L.log('train/critic_loss', ..., step, n=current_Q1.size(0)) and the
\* DistSAC counterpart
CriticLossLog(k, step, rows) ==
  LogCall(IF k = "SAC" THEN "train/critic_loss" ELSE "train/dist_critic_loss",
          step, rows)

\* L.log('train/actor_loss', ..., step, n=state.size(0)) and the DistSAC
\* counterpart
ActorLossLog(k, step, rows) ==
  LogCall(IF k = "SAC" THEN "train/actor_loss" ELSE "train/dist_actor_loss",
          step, rows)

\* faulty variant: the policy is updated on every step
PolicyDueAlways(step, policy_freq) == TRUE
\* if step % policy_freq == 0
PolicyDue(step, policy_freq) == step % policy_freq = 0

\* if target_entropy is not None
AlphaDue(target_entropy) == target_entropy # NoValue

\* SAC.train up to the call of fit_critic: sample, complement done, add the
\* exploration bonus, report the batch reward
SACTrainBegin(a, rows) ==
  /\ kind = "SAC"
  /\ goals' = <<>>
  /\ same_goal_mask' = <<>>
  /\ traj_goal_mask' = <<>>
  /\ done' = [i \in DOMAIN rows |-> SACDone(rows[i].done)]
  /\ reward' = [i \in DOMAIN rows |-> SACReward(rows[i], a.expl_coef)]
  /\ Llog' = (IF a.expl_coef > 0 THEN <<ExplBonusLog(a.step, Len(rows))>>
              ELSE <<>>)
             \o <<SACBatchRewardLog(a.step, Len(rows))>>
  /\ pc' = "fit_critic"

\* DistSAC.train up to the call of fit_critic: sample (the buffer's reward
\* and done are dropped), relabel the goals, derive done and reward, report
DistTrainBegin(a, rows) ==
  /\ kind = "DistSAC"
  /\ LET same == [i \in DOMAIN rows |-> SameGoalMask(rows[i].mask_noise)]
         traj == [i \in DOMAIN rows |-> TrajGoalMask(same[i])]
         g    == [i \in DOMAIN rows |->
                    RelabelGoal(rows[i].state, rows[i].goal, same[i], traj[i])]
         d    == [i \in DOMAIN rows |-> DistDone(rows[i].state, g[i])]
     IN  /\ same_goal_mask' = same
         /\ traj_goal_mask' = traj
         /\ IF MaskAssertsHold(same, traj)
            THEN /\ goals' = g
                 /\ done' = d
                 /\ reward' = [i \in DOMAIN rows |-> DistReward(d[i])]
                 /\ Llog' = <<DistBatchRewardLog(a.step, Len(rows))>>
                 /\ pc' = "fit_critic"
            ELSE /\ goals' = <<>>
                 /\ done' = <<>>
                 /\ reward' = <<>>
                 /\ Llog' = <<>>
                 /\ pc' = "assert_failed"

TrainBegin(a, rows) ==
  /\ pc \in IdlePcs
  /\ nCalls < MaxCalls
  /\ Len(rows) = a.batch_size
  /\ nCalls' = nCalls + 1
  /\ args' = a
  /\ batch' = rows
  /\ target_V' = <<>>
  /\ target_Q' = <<>>
  /\ ops' = <<>>
  /\ SACTrainBegin(a, rows) \/ DistTrainBegin(a, rows)
  /\ io' = NoIo
  /\ UNCHANGED <<trainerVars, files, saved>>
  /\ UNCHANGED <<distVars, meterVars, loggerVars, actorVars>>

\* fit_critic(): vs is V' of every row (target critic and actor outputs),
\* c the critic's parameters after critic_optimizer.step()
FitCritic(vs, c) ==
  /\ pc = "fit_critic"
  /\ Len(vs) = Len(batch)
  /\ target_V' = vs
  /\ target_Q' = [i \in DOMAIN batch |->
        IF kind = "SAC"
        THEN SACTargetQ(reward[i], done[i], args.discount, vs[i])
        ELSE DistTargetQ(reward[i], done[i], args.discount, vs[i])]
  /\ Llog' = Append(Llog, CriticLossLog(kind, args.step, Len(batch)))
  /\ critic' = c
  /\ ops' = Append(ops, "critic_step")
  /\ pc' = IF PolicyDue(args.step, args.policy_freq) THEN "fit_actor"
           ELSE "done"
  /\ UNCHANGED <<kind, actor, critic_target, log_alpha, files, args, batch,
                 goals, same_goal_mask, traj_goal_mask, reward, done, nCalls>>
  /\ UNCHANGED <<io, saved>>
  /\ UNCHANGED <<distVars, meterVars, loggerVars, actorVars>>

\* fit_actor(): a is the actor after actor_optimizer.step(), la is log_alpha
\* after log_alpha_optimizer.step()
FitActor(a, la) ==
  /\ pc = "fit_actor"
  /\ Llog' = Append(Llog, ActorLossLog(kind, args.step, Len(batch)))
  /\ actor' = a
  /\ IF AlphaDue(args.target_entropy)
     THEN /\ log_alpha' = la
          /\ ops' = ops \o <<"actor_step", "alpha_step">>
     ELSE /\ log_alpha' = log_alpha
          /\ ops' = Append(ops, "actor_step")
  /\ pc' = "soft_update"
  /\ UNCHANGED <<kind, critic, critic_target, files, args, batch, goals,
                 same_goal_mask, traj_goal_mask, reward, done, target_V,
                 target_Q, nCalls>>
  /\ UNCHANGED <<io, saved>>
  /\ UNCHANGED <<distVars, meterVars, loggerVars, actorVars>>

\* utils.soft_update_params(self.critic, self.critic_target, tau), then
\* train() returns
SoftUpdate ==
  /\ pc = "soft_update"
  /\ LET r == SoftUpdated(critic, critic_target, args.tau)
     IN  /\ critic' = r.critic
         /\ critic_target' = r.critic_target
  /\ ops' = Append(ops, "soft_update")
  /\ pc' = "done"
  /\ UNCHANGED <<kind, actor, log_alpha, files, args, batch, goals,
                 same_goal_mask, traj_goal_mask, reward, done, target_V,
                 target_Q, Llog, nCalls>>
  /\ UNCHANGED <<io, saved>>
  /\ UNCHANGED <<distVars, meterVars, loggerVars, actorVars>>

(* ----------------------------- save / load ---------------------------- *)
\* save(directory, timestep): torch.save of the actor's and the critic's
\* state_dict
Save(directory, timestep) ==
  /\ pc \in IdlePcs
  /\ files' = [files EXCEPT ![ActorFile(kind, directory, timestep)] = <<actor>>,
                            ![CriticFile(kind, directory, timestep)] = <<critic>>]
  /\ pc' = "saved"
  /\ ClearCall
  /\ io' = [op |-> "save", directory |-> directory, timestep |-> timestep]
  /\ saved' = [saved EXCEPT ![timestep] = <<actor, critic>>]
  /\ UNCHANGED <<trainerVars, nCalls>>
  /\ UNCHANGED <<distVars, meterVars, loggerVars, actorVars>>

\* faulty variant: load also copies the critic into the target critic
LoadedWithTarget(a, c, t) == [actor |-> a, critic |-> c, critic_target |-> c]
\* what load assigns to (actor, critic, critic_target) given the two files
Loaded(a, c, t) == [actor |-> a, critic |-> c, critic_target |-> t]

\* load(directory, timestep): torch.load raises when a file is missing, and
\* the actor's file is read first
Load(directory, timestep) ==
  /\ pc \in IdlePcs
  /\ LET af == files[ActorFile(kind, directory, timestep)]
         cf == files[CriticFile(kind, directory, timestep)]
     IN  IF af = NoValue
         THEN /\ pc' = "load_failed"
              /\ UNCHANGED <<actor, critic, critic_target>>
         ELSE IF cf = NoValue
         THEN /\ pc' = "load_failed"
              /\ actor' = af[1]
              /\ UNCHANGED <<critic, critic_target>>
         ELSE LET r == Loaded(af[1], cf[1], critic_target)
              IN  /\ pc' = "loaded"
                  /\ actor' = r.actor
                  /\ critic' = r.critic
                  /\ critic_target' = r.critic_target
  /\ ClearCall
  /\ io' = [op |-> "load", directory |-> directory, timestep |-> timestep]
  /\ UNCHANGED <<kind, log_alpha, files, nCalls, saved>>
  /\ UNCHANGED <<distVars, meterVars, loggerVars, actorVars>>

(* ------------------------- MovingAverageMeter ------------------------- *)
MeterVals == {2, 4}
MeterCounts == {0, 1, 3}

\* sum of an array indexed 0 .. n - 1
RECURSIVE ArraySum(_, _)
ArraySum(a, n) == IF n = 0 THEN 0 ELSE a[n - 1] + ArraySum(a, n - 1)

\* MovingAverageMeter.__init__(window_size)
MeterInit ==
  /\ window_size \in 1..MaxWindow
  /\ vals = [i \in 0..(window_size - 1) |-> 0]
  /\ counts = [i \in 0..(window_size - 1) |-> 0]
  /\ pointer = 0
  /\ hist = <<>>

\* MovingAverageMeter.reset()
MeterReset ==
  /\ vals' = [i \in 0..(window_size - 1) |-> 0]
  /\ counts' = [i \in 0..(window_size - 1) |-> 0]
  /\ pointer' = 0
  /\ hist' = <<>>
  /\ UNCHANGED <<window_size, trainVars, distVars, loggerVars, actorVars>>

\* faulty variant: the count is added to the slot instead of replacing it
StoreCountAdd(c, p, n) == [c EXCEPT ![p] = c[p] + n]
\* self.counts[self.pointer] = n
StoreCount(c, p, n) == [c EXCEPT ![p] = n]

\* self.pointer = (self.pointer + 1) % self.window_size
NextPointer(p, w) == (p + 1) % w

\* MovingAverageMeter.update(val, n)
MeterUpdate(val, n) ==
  /\ Len(hist) < MaxUpdates
  /\ vals' = [vals EXCEPT ![pointer] = val]
  /\ counts' = StoreCount(counts, pointer, n)
  /\ pointer' = NextPointer(pointer, window_size)
  /\ hist' = Append(hist, [val |-> val, n |-> n])
  /\ UNCHANGED <<window_size, trainVars, distVars, loggerVars, actorVars>>

\* faulty variant: the sum is divided by the window size
ComputeMean(v, c, w) == <<ArraySum(v, w), w>>
\* MovingAverageMeter.compute(): self.vals.sum() / max(1., self.counts.sum()),
\* as the fraction <<numerator, denominator>>
Compute(v, c, w) == <<ArraySum(v, w), Max2(1, ArraySum(c, w))>>

(* -------------------------------- Logger ------------------------------ *)
FormatTypes == {"json", "text", "yaml"}
LogTypes == {None, "train", "eval"}
Keys == <<"total_timesteps">>

\* IntegerMeter.__str__: '%d' % self.compute()
IntegerMeterStr(n) == ToString(n)

\* stats of dump(): 'type' first, then every key with str(meter)
Stats(lt, n) == <<<<"type", lt>>, <<Keys[1], IntegerMeterStr(n)>>>>

\* json.dumps of a string value or None
JsonValue(v) == IF v = None THEN "null" ELSE "\"" \o v \o "\""

RECURSIVE JsonItems(_)
JsonItems(stats) ==
  IF stats = <<>> THEN ""
  ELSE "\"" \o Head(stats)[1] \o "\": " \o JsonValue(Head(stats)[2])
       \o (IF Tail(stats) = <<>> THEN "" ELSE ", " \o JsonItems(Tail(stats)))

\* Logger._format_json
FormatJson(stats) == "{" \o JsonItems(stats) \o "}"

RECURSIVE TextPieces(_)
TextPieces(stats) ==
  IF stats = <<>> THEN ""
  ELSE Head(stats)[1] \o ": " \o Head(stats)[2]
       \o (IF Tail(stats) = <<>> THEN "" ELSE " | " \o TextPieces(Tail(stats)))

\* Logger._format_text
FormatText(stats) == "| " \o TextPieces(stats)

\* faulty variant: an unknown format type falls back to text
FormatLenient(ft, stats) ==
  IF ft = "json" THEN [raised |-> FALSE, line |-> FormatJson(stats)]
  ELSE [raised |-> FALSE, line |-> FormatText(stats)]
\* Logger._format: the formatted line, or the AssertionError it raises
Format(ft, stats) ==
  IF ft = "json" THEN [raised |-> FALSE, line |-> FormatJson(stats)]
  ELSE IF ft = "text" THEN [raised |-> FALSE, line |-> FormatText(stats)]
  ELSE [raised |-> TRUE, line |-> ""]

\* Logger.__init__ (log_type None), TrainLogger.__init__, EvalLogger.__init__,
\* with a StatsTracker beside it
LoggerInit ==
  /\ format_type \in FormatTypes
  /\ log_type \in LogTypes
  /\ log_file \in {None, <<>>}
  /\ console = <<>>
  /\ total_timesteps = 0
  /\ dump_result = "none"
  /\ nDumps = 0

\* StatsTracker.update('total_timesteps', n): IntegerMeter.update
TrackerUpdate(n) ==
  /\ total_timesteps + n <= MaxCount
  /\ total_timesteps' = total_timesteps + n
  /\ UNCHANGED <<format_type, log_type, log_file, console, dump_result,
                 nDumps>>
  /\ UNCHANGED <<trainVars, distVars, meterVars, actorVars>>

\* Logger.dump(tracker): _format is evaluated before print writes anything,
\* once for the console and once more for the file
Dump ==
  /\ nDumps < MaxDumps
  /\ nDumps' = nDumps + 1
  /\ LET stats == Stats(log_type, total_timesteps)
         first == Format(format_type, stats)
         second == Format(format_type, stats)
     IN  IF first.raised
         THEN /\ dump_result' = "AssertionError"
              /\ UNCHANGED <<console, log_file>>
         ELSE /\ console' = Append(console, first.line)
              /\ IF log_file = None
                 THEN /\ dump_result' = "ok"
                      /\ UNCHANGED log_file
                 ELSE IF second.raised
                 THEN /\ dump_result' = "AssertionError"
                      /\ UNCHANGED log_file
                 ELSE /\ dump_result' = "ok"
                      /\ log_file' = Append(log_file, second.line)
  /\ UNCHANGED <<format_type, log_type, total_timesteps>>
  /\ UNCHANGED <<trainVars, distVars, meterVars, actorVars>>

(* ------------------------- DistSAC.get_distance ----------------------- *)
\* coordinates are whole numbers; distances are in thousandths
DistStates == {<<0, 0, 0>>, <<1, 0, 7>>}
DistGoals == {<<3, 4, 0>>, <<1, 0, 0>>, <<1, 0, 9>>, <<0, 5, 2>>}
QVals == {<<-1000, -2000>>, <<-3000, 0>>}

\* diff = repeated_state[:, :, :2] - repeated_ctx[:, :, :2]
\* dist = diff.pow(2).sum(dim=-1).pow(0.5)
L2Dist(state, goal) ==
  ISqrt(1000000 * SeqSum([i \in 1..2 |->
                            (state[i] - goal[i]) * (state[i] - goal[i])]))

\* dist = -torch.min(q1, q2), q = <<q1, q2>> the critic's two outputs
CriticDist(q) == -Min2(q[1], q[2])

\* num_candidates = min(self.num_candidates, num_goals)
NumSelected(nc, num_goals) == Min2(nc, num_goals)

\* faulty variant: topk with largest=True
PickLargest(d, S) == {j \in S : \A i \in S : d[j] >= d[i]}
\* the index picked next by topk(largest=False) among the indices S left
PickSmallest(d, S) == {j \in S : \A i \in S : d[j] <= d[i]}

\* dist.topk(k, dim=1, largest=False): every order topk may return; which of
\* several equal distances comes first is not specified
RECURSIVE TopK(_, _, _)
TopK(d, S, k) ==
  IF k = 0 THEN {<<>>}
  ELSE UNION {{<<j>> \o rest : rest \in TopK(d, S \ {j}, k - 1)} :
              j \in PickSmallest(d, S)}

\* dist.mean(dim=1, keepdim=True) of the selected distances
MeanOf(d, idx) == SeqSum([i \in DOMAIN idx |-> d[idx[i]]]) \div Len(idx)

\* the per-goal distances of one row of the batch
RowDists(l2, state, ctx, q) ==
  [j \in DOMAIN ctx |-> IF l2 THEN L2Dist(state, ctx[j]) ELSE CriticDist(q[j])]

\* get_distance has not been called
NoQuery ==
  [called |-> FALSE, state |-> <<>>, ctx |-> <<>>, q |-> <<>>,
   dists |-> <<>>, dist |-> <<>>, idxs |-> <<>>]

\* DistSAC.__init__: num_candidates and use_l2
DistInit ==
  /\ num_candidates \in 1..MaxCandidates
  /\ use_l2 \in BOOLEAN
  /\ dq = NoQuery

\* get_distance(state, repeated_ctx): states[b] is row b of state, ctxs[b] the
\* num_goals candidate goals of row b, qs[b][j] the critic's outputs for
\* candidate j of row b (read only when use_l2 is false); indices are returned
\* counting from 0
GetDistance(states, ctxs, qs) ==
  /\ Len(states) = Len(ctxs)
  /\ Len(qs) = Len(ctxs)
  /\ \A b \in DOMAIN ctxs : Len(ctxs[b]) = Len(ctxs[1])
  /\ \A b \in DOMAIN ctxs : Len(qs[b]) = Len(ctxs[1])
  /\ LET num_goals == Len(ctxs[1])
         k == NumSelected(num_candidates, num_goals)
         d == [b \in DOMAIN ctxs |-> RowDists(use_l2, states[b], ctxs[b], qs[b])]
     IN  \E idx \in [DOMAIN ctxs -> UNION {TopK(d[b], 1..num_goals, k) :
                                             b \in DOMAIN ctxs}] :
           /\ \A b \in DOMAIN ctxs : idx[b] \in TopK(d[b], 1..num_goals, k)
           /\ dq' = [called |-> TRUE, state |-> states, ctx |-> ctxs, q |-> qs,
                     dists |-> d,
                     dist |-> [b \in DOMAIN ctxs |-> MeanOf(d[b], idx[b])],
                     idxs |-> [b \in DOMAIN ctxs |->
                                 [i \in DOMAIN idx[b] |-> idx[b][i] - 1]]]
  /\ UNCHANGED <<num_candidates, use_l2, trainVars, meterVars, loggerVars,
               actorVars>>

(* ------------------------------ Actor.forward ------------------------- *)
\* A tensor is written as the expression that computes it, so that two
\* results are equal exactly when the code computed them the same way from
\* the same inputs.  The network outputs and the noise sample are inputs.
RawMus == {"m1", "m2", "m3"}
RawLogStds == {"s1", "s2"}
NoiseSamples == {"n1", "n2"}
LogStdBounds == {<<"-20", "2">>, <<"-5", "1">>}

\* a local variable of forward() that no statement has assigned yet
Unbound == "<unbound>"
\* what a call that raised has returned
NoReturn == "<nothing returned>"

Tanh(x) == "tanh(" \o x \o ")"

\* pre_sum = -0.5 * noise.pow(2) - log_std
\* return pre_sum.sum(-1, keepdim=True) - 0.5 * np.log(2 * np.pi) * noise.size(-1)
gaussian_likelihood(noise, log_std) ==
  "sum(-0.5 * " \o noise \o "^2 - " \o log_std \o ") - 0.5 * log(2 * pi) * size("
    \o noise \o ")"

\* mu = tanh(mu); pi = tanh(pi) unless pi is None; unless log_pi is None,
\* log_pi -= log(relu(1 - pi.pow(2)) + 1e-6).sum(-1, keepdim=True), where
\* pi.pow fails on None
apply_squashing_func(mu, pi, log_pi) ==
  LET pi2 == IF pi # None THEN Tanh(pi) ELSE None
  IN  IF log_pi = None
        THEN [raised |-> "none", mu |-> Tanh(mu), pi |-> pi2, log_pi |-> None]
      ELSE IF pi2 = None
        THEN [raised |-> "AttributeError", mu |-> NoReturn, pi |-> NoReturn,
              log_pi |-> NoReturn]
      ELSE [raised |-> "none", mu |-> Tanh(mu), pi |-> pi2,
            log_pi |-> log_pi \o " - sum(log(relu(1 - " \o pi2
                         \o "^2) + 1e-6))"]

\* x = torch.cat([x, x_g], dim=1) with x_g = x_g[:, :2] under only_pos; the
\* SAC actor takes the state alone
NetInput(k, only_pos) ==
  IF k = "SAC" THEN "x"
  ELSE IF only_pos THEN "cat(x, x_g[:, :2])" ELSE "cat(x, x_g)"

\* log_std = torch.tanh(log_std)
\* log_std = log_std_min + 0.5 * (log_std_max - log_std_min) * (log_std + 1)
RescaleLogStd(lo, hi, raw) ==
  lo \o " + 0.5 * (" \o hi \o " - " \o lo \o ") * (" \o Tanh(raw) \o " + 1)"

\* if compute_pi: std = log_std.exp(); noise = torch.randn_like(mu);
\* pi = mu + noise * std -- else: pi = None, and std and noise stay unassigned
SampleLocals(compute_pi, mu, log_std, n) ==
  IF compute_pi
    THEN [std |-> "exp(" \o log_std \o ")", noise |-> n,
          pi |-> mu \o " + " \o n \o " * exp(" \o log_std \o ")"]
  ELSE [std |-> Unbound, noise |-> Unbound, pi |-> None]

\* faulty variant: the log-probability is silently skipped without a sample
LogPiSkipped(compute_log_pi, noise, log_std) ==
  IF compute_log_pi /\ noise # Unbound
    THEN [raised |-> "none", value |-> gaussian_likelihood(noise, log_std)]
  ELSE [raised |-> "none", value |-> None]

\* if compute_log_pi: log_pi = gaussian_likelihood(noise, log_std) -- reading
\* the unassigned local noise raises -- else: log_pi = None
LogPi(compute_log_pi, noise, log_std) ==
  IF ~compute_log_pi THEN [raised |-> "none", value |-> None]
  ELSE IF noise = Unbound
    THEN [raised |-> "UnboundLocalError", value |-> NoReturn]
  ELSE [raised |-> "none", value |-> gaussian_likelihood(noise, log_std)]

\* forward() has not been called
NoForward ==
  [called |-> FALSE, input |-> "", compute_pi |-> FALSE,
   compute_log_pi |-> FALSE, raw_mu |-> "", raw_log_std |-> "",
   noise |-> Unbound, raised |-> "none", mu |-> NoReturn, pi |-> NoReturn,
   log_pi |-> NoReturn]

\* Actor.__init__ of the trainer's kind: log_std_min, log_std_max and, for
\* the DistSAC actor, only_pos
ActorInit ==
  /\ \E b \in LogStdBounds, op \in BOOLEAN :
       /\ kind = "SAC" => ~op
       /\ actor_cfg = [log_std_min |-> b[1], log_std_max |-> b[2],
                       only_pos |-> op]
  /\ fw = NoForward

\* Actor.forward(x[, x_g], compute_pi, compute_log_pi): raw_mu and raw_log_std
\* are the two chunks of self.l3(x), n the sample torch.randn_like draws when
\* compute_pi is set
Forward(compute_pi, compute_log_pi, raw_mu, raw_log_std, n) ==
  /\ LET log_std == RescaleLogStd(actor_cfg.log_std_min,
                                  actor_cfg.log_std_max, raw_log_std)
         loc == SampleLocals(compute_pi, raw_mu, log_std, n)
         lp == LogPi(compute_log_pi, loc.noise, log_std)
         out == IF lp.raised # "none"
                  THEN [raised |-> lp.raised, mu |-> NoReturn,
                        pi |-> NoReturn, log_pi |-> NoReturn]
                ELSE apply_squashing_func(raw_mu, loc.pi, lp.value)
     IN  fw' = [called |-> TRUE, input |-> NetInput(kind, actor_cfg.only_pos),
                compute_pi |-> compute_pi, compute_log_pi |-> compute_log_pi,
                raw_mu |-> raw_mu, raw_log_std |-> raw_log_std,
                noise |-> loc.noise, raised |-> out.raised, mu |-> out.mu,
                pi |-> out.pi, log_pi |-> out.log_pi]
  /\ UNCHANGED <<actor_cfg, trainVars, distVars, meterVars, loggerVars>>

(* ---------------------------- specifications -------------------------- *)
\* the components a specification does not exercise stay as constructed
TrainerAs(k) ==
  /\ kind = k
  /\ actor = 0
  /\ critic = 0
  /\ critic_target = 0
  /\ log_alpha = 0
  /\ files = [f \in FileNames |-> NoValue]
  /\ pc = "constructed"
  /\ NoCall
  /\ nCalls = 0
  /\ io = NoIo
  /\ saved = NoSaves

TrainerIdle == TrainerAs("SAC")

DistIdle ==
  /\ num_candidates = 1
  /\ use_l2 = FALSE
  /\ dq = NoQuery

MeterIdle ==
  /\ window_size = 1
  /\ vals = [i \in {0} |-> 0]
  /\ counts = [i \in {0} |-> 0]
  /\ pointer = 0
  /\ hist = <<>>

LoggerIdle ==
  /\ format_type = "json"
  /\ log_type = None
  /\ log_file = None
  /\ console = <<>>
  /\ total_timesteps = 0
  /\ dump_result = "none"
  /\ nDumps = 0

ActorIdle ==
  /\ actor_cfg = [log_std_min |-> "-20", log_std_max |-> "2",
                  only_pos |-> FALSE]
  /\ fw = NoForward

\* arguments of train(): every step and policy_freq within the bounds
TrainArgs(k) ==
  [step : 0..MaxStep, batch_size : {2}, discount : {DefaultDiscount},
   tau : TauVals, policy_freq : 1..MaxFreq, target_entropy : EntropyVals,
   expl_coef : {0}]

\* arguments of train() with the defaults of the signature, at a step on
\* which the policy is updated
DefaultArgs(n) ==
  [step |-> 0, batch_size |-> n, discount |-> DefaultDiscount,
   tau |-> DefaultTau, policy_freq |-> 2, target_entropy |-> NoValue,
   expl_coef |-> 0]

PlainRow == Row(Origin, <<3, 4>>, -1, 0, 50, 0)
PlainBatch(n) == [i \in 1..n |-> PlainRow]
ZeroV(n) == [i \in 1..n |-> 0]

\* The trainer: construction, train() step by step, save and load.
Init == TrainerInit /\ DistIdle /\ MeterIdle /\ LoggerIdle /\ ActorIdle

Next ==
  \/ Construct
  \/ \E a \in TrainArgs(kind) : TrainBegin(a, PlainBatch(a.batch_size))
  \/ \E c \in ParamVals : FitCritic(ZeroV(Len(batch)), c)
  \/ \E a \in ParamVals, la \in LogAlphaVals : FitActor(a, la)
  \/ SoftUpdate
  \/ Save(Directory, 1)
  \/ Load(Directory, 1)

Spec == Init /\ [][Next]_vars

\* The rows of a batch: train() on every kind of row.
SACRows ==
  {Row(Origin, Origin, r, d, 50, b) : r \in {-1, 0, 2}, d \in {0, 1},
                                      b \in {0, 3}}
DistRows ==
  {Row(s, g, bp[1], bp[2], n, 0) : s \in StatePoints, g \in GoalPoints,
                                   n \in NoiseVals,
                                   bp \in {<<0, 0>>, <<-1, 1>>}}
RowsOf(k) == IF k = "SAC" THEN SACRows ELSE DistRows
BatchSizes == {1, 2}

RowArgs(k) ==
  {[DefaultArgs(n) EXCEPT !.expl_coef = e] :
     n \in BatchSizes, e \in (IF k = "SAC" THEN ExplCoefVals ELSE {0})}

InitRows ==
  /\ \E k \in Kinds : TrainerAs(k)
  /\ DistIdle /\ MeterIdle /\ LoggerIdle /\ ActorIdle

NextRows ==
  \/ /\ pc = "constructed"
     /\ \E a \in RowArgs(kind) :
          \E rows \in [1..a.batch_size -> RowsOf(kind)] : TrainBegin(a, rows)
  \/ \E vs \in [1..Len(batch) -> VVals] : FitCritic(vs, 1000000)
  \/ FitActor(1000000, 0)
  \/ SoftUpdate

SpecRows == InitRows /\ [][NextRows]_vars

\* get_distance on its own: one call on inputs drawn from the sets above.
InitDist == TrainerIdle /\ DistInit /\ MeterIdle /\ LoggerIdle /\ ActorIdle

GoalLists == UNION {[1..n -> DistGoals] : n \in 1..MaxGoals}
NoQ(n) == [j \in 1..n |-> <<0, 0>>]

NextDist ==
  \/ /\ use_l2
     /\ ~dq.called
     /\ \E s \in DistStates, g \in GoalLists :
          GetDistance(<<s>>, <<g>>, <<NoQ(Len(g))>>)
  \/ /\ use_l2
     /\ ~dq.called
     /\ \E s \in DistStates, n \in 1..MaxGoals :
          \E g1, g2 \in [1..n -> {<<3, 4, 0>>, <<1, 0, 9>>}] :
            GetDistance(<<s, s>>, <<g1, g2>>, <<NoQ(n), NoQ(n)>>)
  \/ /\ ~use_l2
     /\ ~dq.called
     /\ \E n \in 1..MaxGoals :
          \E q \in [1..n -> QVals] :
            GetDistance(<<<<0, 0, 0>>>>, <<[j \in 1..n |-> <<3, 4, 0>>]>>, <<q>>)

SpecDist == InitDist /\ [][NextDist]_vars

\* The moving-average meter on its own.
InitMeter == TrainerIdle /\ DistIdle /\ MeterInit /\ LoggerIdle /\ ActorIdle

NextMeter ==
  \/ MeterReset
  \/ \E v \in MeterVals, n \in MeterCounts : MeterUpdate(v, n)

SpecMeter == InitMeter /\ [][NextMeter]_vars

\* The logger with its tracker.
InitLogger == TrainerIdle /\ DistIdle /\ MeterIdle /\ LoggerInit /\ ActorIdle

NextLogger ==
  \/ TrackerUpdate(1)
  \/ Dump

SpecLogger == InitLogger /\ [][NextLogger]_vars

\* The actor network on its own: forward() with every pair of flags.
InitActor ==
  /\ \E k \in Kinds : TrainerAs(k)
  /\ DistIdle /\ MeterIdle /\ LoggerIdle /\ ActorInit

NextActor ==
  \E cp, clp \in BOOLEAN, m \in RawMus, s \in RawLogStds, n \in NoiseSamples :
    Forward(cp, clp, m, s, n)

SpecActor == InitActor /\ [][NextActor]_vars

\* Checkpoints: train(), save and load at every timestep, in any order.
InitCkpt == TrainerInit /\ DistIdle /\ MeterIdle /\ LoggerIdle /\ ActorIdle

\* train() with the defaults of the signature on a batch of one row
CkptArgs == DefaultArgs(1)
CkptBatch == PlainBatch(1)

NextCkpt ==
  \/ TrainBegin(CkptArgs, CkptBatch)
  \/ \E c \in ParamVals : FitCritic(ZeroV(Len(batch)), c)
  \/ \E a \in ParamVals : FitActor(a, InitialLogAlpha)
  \/ SoftUpdate
  \/ \E t \in Timesteps : Save(Directory, t)
  \/ \E t \in Timesteps : Load(Directory, t)

SpecCkpt == InitCkpt /\ [][NextCkpt]_vars

(* -------------------------------- claims ------------------------------ *)
InCall == {"fit_critic", "fit_actor", "soft_update", "done"}

IsPrefix(s, t) == Len(s) <= Len(t) /\ s = SubSeq(t, 1, Len(s))

\* the optimizer and soft-update steps one train(step, policy_freq,
\* target_entropy) call is to take, in order
ExpectedOps(a) ==
  <<"critic_step">>
    \o (IF a.step % a.policy_freq = 0
        THEN <<"actor_step">>
               \o (IF a.target_entropy = NoValue THEN <<>>
                   ELSE <<"alpha_step">>)
               \o <<"soft_update">>
        ELSE <<>>)

\* C1: in every train() call of either trainer the critic step runs exactly
\* once; the actor step and the soft update run exactly once when
\* step % policy_freq = 0 and not at all otherwise; the temperature step runs
\* only right after the actor step and only when target_entropy is not None;
\* the order is critic, actor, temperature, soft update.  While the call is
\* running the steps taken are a prefix of that sequence; when it has
\* returned they are the whole of it.
C1_TrainStepOrder ==
  pc \in InCall =>
    /\ IsPrefix(ops, ExpectedOps(args))
    /\ pc = "done" => ops = ExpectedOps(args)
    /\ pc = "fit_critic" => ops = <<>>

C1_Witness ==
  /\ pc = "done"
  /\ kind = "DistSAC"
  /\ args.step = 2
  /\ args.policy_freq = 2
  /\ ops = <<"critic_step", "actor_step", "alpha_step", "soft_update">>

\* C2: right after construction the target critic equals the online critic;
\* afterwards the target critic changes only in the soft-update step of
\* train() (or when a new trainer is constructed): the critic fit, the actor
\* fit, the temperature update, save and load leave it unchanged.
C2_TargetChangesOnlyBySoftUpdate ==
  /\ [](pc = "constructed" => critic_target = critic)
  /\ [][critic_target' # critic_target =>
          \/ pc = "soft_update" /\ pc' = "done"
          \/ pc' = "constructed"]_vars

C2_Witness ==
  /\ pc = "loaded"
  /\ critic_target \notin ParamVals
  /\ critic_target # critic
  /\ nCalls > 0

\* C3: every L.log call of train() passes the current training step as the
\* step argument and the number of rows of the batch as the weight n.
C3_LogStepAndWeight ==
  pc \in InCall =>
    \A i \in DOMAIN Llog :
      Llog[i].step = args.step /\ Llog[i].n = Len(batch)

\* the done flag of row i of the batch: the buffer's in SAC, the one derived
\* from state and goal in DistSAC
RowDoneFlag(i) == IF kind = "SAC" THEN batch[i].done ELSE done[i]

\* C4: in both trainers the critic target of a row is
\* reward + not_done * gamma * V' with not_done = 1 - done (in hundredths):
\* the reward alone for a row with done = 1, reward + gamma * V' for a row
\* with done = 0.  In SAC the reward is the buffer's reward plus the
\* exploration bonus when expl_coef > 0.
C4_CriticTarget ==
  pc \in {"fit_actor", "soft_update", "done"} =>
    \A i \in DOMAIN batch :
      LET d == RowDoneFlag(i)
      IN  /\ d \in {0, 1}
          /\ target_Q[i] = 100 * reward[i] + (1 - d) * args.discount * target_V[i]
          /\ d = 1 => target_Q[i] = 100 * reward[i]
          /\ d = 0 => target_Q[i] = 100 * reward[i] + args.discount * target_V[i]
          /\ kind = "SAC" =>
               reward[i] = batch[i].reward
                             + (IF args.expl_coef > 0
                                THEN batch[i].dist * args.expl_coef ELSE 0)

C4_Witness ==
  /\ pc = "done"
  /\ kind = "SAC"
  /\ Len(batch) = 2
  /\ batch[1].done = 1 /\ target_V[1] = 3 /\ reward[1] = 2 /\ target_Q[1] = 200
  /\ batch[2].done = 0 /\ target_V[2] = 3 /\ reward[2] = 2 /\ target_Q[2] = 497

\* C5: in DistSAC.train, for every row, same_goal_mask is 1 exactly when
\* mask_noise > 0.9 (a value of exactly 0.9 takes the trajectory goal), the
\* two masks add up to 1 and are never both 1, and the row's goal is its own
\* state when same_goal_mask is 1 and the sampled trajectory goal otherwise.
C5_GoalRelabelling ==
  kind = "DistSAC" /\ pc # "constructed" =>
    /\ pc # "assert_failed"
    /\ \A i \in DOMAIN batch :
         /\ same_goal_mask[i] = 1 <=> batch[i].mask_noise > 90
         /\ same_goal_mask[i] \in {0, 1}
         /\ same_goal_mask[i] + traj_goal_mask[i] = 1
         /\ ~(same_goal_mask[i] = 1 /\ traj_goal_mask[i] = 1)
         /\ same_goal_mask[i] = 1 => goals[i] = batch[i].state
         /\ same_goal_mask[i] # 1 => goals[i] = batch[i].goal

C5_Witness ==
  /\ kind = "DistSAC"
  /\ pc = "fit_critic"
  /\ Len(batch) = 2
  /\ batch[1].mask_noise = 90 /\ batch[1].state # batch[1].goal
  /\ goals[1] = batch[1].goal
  /\ batch[2].mask_noise = 91 /\ batch[2].state # batch[2].goal
  /\ goals[2] = batch[2].state

\* squared Euclidean distance of two points, in squared millionths
SqDist(a, b) == (a[1] - b[1]) * (a[1] - b[1]) + (a[2] - b[2]) * (a[2] - b[2])

\* C6: in DistSAC.train, for every row, done is 1 exactly when state and
\* relabelled goal are less than the tolerance 1e-5 apart and 0 otherwise,
\* and reward = -(1 - done): 0 when done is 1, -1 when done is 0.  Every
\* self-goal-relabelled row has done = 1 and reward = 0.  Both are fixed by
\* the row's state, goal and mask_noise alone: the buffer's reward and done
\* are not read.
C6_SparseReward ==
  kind = "DistSAC" /\ pc \in InCall =>
    \A i \in DOMAIN batch :
      /\ done[i] = 1 <=> SqDist(batch[i].state, goals[i]) < 10 * 10
      /\ done[i] \in {0, 1}
      /\ reward[i] = -(1 - done[i])
      /\ done[i] = 1 => reward[i] = 0
      /\ done[i] = 0 => reward[i] = -1
      /\ same_goal_mask[i] = 1 => done[i] = 1 /\ reward[i] = 0
      /\ \A j \in DOMAIN batch :
           /\ batch[i].state = batch[j].state
           /\ batch[i].goal = batch[j].goal
           /\ batch[i].mask_noise = batch[j].mask_noise
           => done[i] = done[j] /\ reward[i] = reward[j]

C6_Witness ==
  /\ kind = "DistSAC"
  /\ pc = "done"
  /\ Len(batch) = 2
  /\ batch[1] = Row(Origin, <<6, 8>>, 0, 0, 50, 0)
  /\ done[1] = 0 /\ reward[1] = -1
  /\ batch[2] = Row(<<6, 8>>, <<30000, 0>>, -1, 1, 91, 0)
  /\ done[2] = 1 /\ reward[2] = 0

\* C7: with use_l2, get_distance computes for each candidate goal the
\* Euclidean norm of the difference of the first two coordinates of state
\* and goal (here in thousandths, rounded down), and returns the mean of the
\* k smallest of them, k = min(num_candidates, num_goals), with the indices
\* of those k candidates.  State (0,0) and candidates (3,4), (1,0) give the
\* distances 5 and 1; with num_candidates = 1 the mean is 1 and the index is
\* that of the second candidate.
C7_L2Distance ==
  dq.called /\ use_l2 =>
    \A b \in DOMAIN dq.ctx :
      LET st == dq.state[b]
          ctx == dq.ctx[b]
          d == dq.dists[b]
          sel == {dq.idxs[b][i] + 1 : i \in DOMAIN dq.idxs[b]}
          k == IF num_candidates <= Len(ctx) THEN num_candidates ELSE Len(ctx)
          sq(j) == (st[1] - ctx[j][1]) * (st[1] - ctx[j][1])
                     + (st[2] - ctx[j][2]) * (st[2] - ctx[j][2])
      IN  /\ DOMAIN d = DOMAIN ctx
          /\ \A j \in DOMAIN ctx :
               /\ d[j] >= 0
               /\ d[j] * d[j] <= 1000000 * sq(j)
               /\ 1000000 * sq(j) < (d[j] + 1) * (d[j] + 1)
          /\ Len(dq.idxs[b]) = k
          /\ Cardinality(sel) = k
          /\ sel \subseteq DOMAIN ctx
          /\ \A j \in sel : \A i \in (DOMAIN ctx) \ sel : d[j] <= d[i]
          /\ \A i \in 1..(k - 1) :
               d[dq.idxs[b][i] + 1] <= d[dq.idxs[b][i + 1] + 1]
          /\ dq.dist[b] =
               SeqSum([i \in 1..k |-> d[dq.idxs[b][i] + 1]]) \div k
          /\ (st[1] = 0 /\ st[2] = 0 /\ Len(ctx) = 2
              /\ ctx[1][1] = 3 /\ ctx[1][2] = 4
              /\ ctx[2][1] = 1 /\ ctx[2][2] = 0)
             => /\ d = <<5000, 1000>>
                /\ num_candidates = 1 =>
                     dq.dist[b] = 1000 /\ dq.idxs[b] = <<1>>

C7_Witness ==
  /\ dq.called
  /\ use_l2
  /\ num_candidates = 1
  /\ dq.state = <<<<0, 0, 0>>>>
  /\ dq.ctx = <<<<<<3, 4, 0>>, <<1, 0, 0>>>>>>
  /\ dq.dists = <<<<5000, 1000>>>>
  /\ dq.dist = <<1000>>
  /\ dq.idxs = <<<<1>>>>

RECURSIVE HistVals(_)
HistVals(h) == IF h = <<>> THEN 0 ELSE Head(h).val + HistVals(Tail(h))

RECURSIVE HistCounts(_)
HistCounts(h) == IF h = <<>> THEN 0 ELSE Head(h).n + HistCounts(Tail(h))

\* C8: while a MovingAverageMeter has received fewer updates than
\* window_size since construction or reset, compute() is the sum of the
\* updated values over the sum of their counts, and the divisor is 1 when
\* the counts sum to less than 1 (or there was no update).  window_size = 4
\* and the updates 2 and 4 with n = 1 give 6 / 2, not 6 / 4.
C8_PartialWindowAverage ==
  Len(hist) < window_size =>
    /\ Compute(vals, counts, window_size) =
         <<HistVals(hist),
           IF HistCounts(hist) < 1 THEN 1 ELSE HistCounts(hist)>>
    /\ (window_size = 4
        /\ hist = <<[val |-> 2, n |-> 1], [val |-> 4, n |-> 1]>>)
       => Compute(vals, counts, window_size) = <<6, 2>>

C8_Witness ==
  /\ window_size = 4
  /\ hist = <<[val |-> 2, n |-> 1], [val |-> 4, n |-> 1]>>
  /\ Compute(vals, counts, window_size) = <<6, 2>>

\* C9: one soft update with rate tau (0 <= tau <= 1) leaves the online
\* critic unchanged and sets the target critic to
\* tau * online + (1 - tau) * old_target (rounded down to the model's unit);
\* the new target lies between the old target and the online value; for
\* tau = 0.005, online = 1.0 and old target = 0.0 the new target is 0.005.
C9_SoftUpdateConvex ==
  [][pc = "soft_update" /\ pc' = "done" =>
       LET exact == args.tau * critic + (1000 - args.tau) * critic_target
       IN  /\ critic' = critic
           /\ 1000 * critic_target' <= exact
           /\ exact < 1000 * critic_target' + 1000
           /\ \/ critic_target <= critic_target' /\ critic_target' <= critic
              \/ critic <= critic_target' /\ critic_target' <= critic_target
           /\ (args.tau = 5 /\ critic = 1000000 /\ critic_target = 0)
              => critic_target' = 5000]_vars

C9_Witness ==
  /\ pc = "done"
  /\ nCalls = 1
  /\ args.tau = 5
  /\ ops = <<"critic_step", "actor_step", "soft_update">>
  /\ critic = 1000000
  /\ critic_target = 5000

\* C10: a Logger whose format type is neither 'json' nor 'text' is accepted
\* by the constructor; every dump() on it ends with an AssertionError and
\* writes no line to the console or to the log file.
C10_InvalidFormatRejectedAtDump ==
  format_type \notin {"json", "text"} =>
    /\ console = <<>>
    /\ log_file = None \/ log_file = <<>>
    /\ nDumps > 0 => dump_result = "AssertionError"
    /\ nDumps = 0 => dump_result = "none"

C10_Witness ==
  /\ format_type = "yaml"
  /\ nDumps = 2
  /\ dump_result = "AssertionError"
  /\ log_file = <<>>
  /\ console = <<>>

\* C11: a forward() call with compute_pi=False and compute_log_pi=True fails
\* with an error and returns nothing, in the SAC and in the DistSAC actor; a
\* call with both flags False returns the squashed mean with pi and log_pi
\* both None.
C11_LogPiWithoutSamplingRejected ==
  (fw.called /\ ~fw.compute_pi) =>
    IF fw.compute_log_pi
      THEN /\ fw.raised # "none"
           /\ fw.mu = NoReturn /\ fw.pi = NoReturn /\ fw.log_pi = NoReturn
    ELSE /\ fw.raised = "none"
         /\ fw.mu = Tanh(fw.raw_mu)
         /\ fw.pi = None
         /\ fw.log_pi = None

C11_Witness ==
  /\ kind = "DistSAC"
  /\ fw.called /\ ~fw.compute_pi /\ fw.compute_log_pi
  /\ fw.raised = "UnboundLocalError"
  /\ fw.log_pi = NoReturn

\* C12: a load(directory, t) that follows a save(directory, t), with any
\* train() calls and saves at other timesteps in between, leaves the actor
\* and the critic with the values they had at that save; save changes no
\* parameter of the trainer; a save writes only the two files of its own
\* timestep, so every timestep's files keep holding the values of its own
\* last save.
C12_LoadRestoresSave ==
  /\ []((pc = "loaded" /\ io.op = "load") =>
          (saved[io.timestep] # NoValue =>
             /\ actor = saved[io.timestep][1]
             /\ critic = saved[io.timestep][2]))
  /\ [][pc' = "saved" => UNCHANGED trainerVars]_vars
  /\ [][pc' = "saved" =>
          \A t \in Timesteps \ {io'.timestep} :
            /\ files'[ActorFile(kind, Directory, t)]
                 = files[ActorFile(kind, Directory, t)]
            /\ files'[CriticFile(kind, Directory, t)]
                 = files[CriticFile(kind, Directory, t)]]_vars
  /\ [](\A t \in Timesteps :
          saved[t] # NoValue =>
            /\ files[ActorFile(kind, Directory, t)] = <<saved[t][1]>>
            /\ files[CriticFile(kind, Directory, t)] = <<saved[t][2]>>)

C12_Witness ==
  /\ pc = "loaded"
  /\ io = [op |-> "load", directory |-> Directory, timestep |-> 1]
  /\ nCalls > 0
  /\ saved[1] # NoValue /\ saved[2] # NoValue
  /\ saved[1][1] # saved[2][1] /\ saved[1][2] # saved[2][2]
  /\ actor = saved[1][1] /\ critic = saved[1][2]
  /\ critic_target # critic

\* the last w updates of the history h
LastUpdates(h, w) == SubSeq(h, Len(h) - w + 1, Len(h))

\* C13: once a MovingAverageMeter with window_size W has received at least W
\* updates since construction or reset, compute() is the sum of the values
\* of the last W updates over max(1, the sum of their counts); the write
\* pointer stays in 0..W-1; every update writes the slot under the pointer,
\* which (once the window is full) holds the oldest of the last W updates,
\* and advances the pointer by one modulo W; after reset() the meter is as
\* freshly constructed.
C13_FullWindowAverage ==
  /\ [](Len(hist) >= window_size =>
          Compute(vals, counts, window_size) =
            <<HistVals(LastUpdates(hist, window_size)),
              Max2(1, HistCounts(LastUpdates(hist, window_size)))>>)
  /\ [](pointer \in 0..(window_size - 1) /\ pointer = Len(hist) % window_size)
  /\ [][Len(hist') = Len(hist) + 1 =>
          /\ pointer' = (pointer + 1) % window_size
          /\ vals' = [vals EXCEPT ![pointer] = hist'[Len(hist')].val]
          /\ counts' = [counts EXCEPT ![pointer] = hist'[Len(hist')].n]
          /\ Len(hist) >= window_size =>
               /\ vals[pointer] = hist[Len(hist) - window_size + 1].val
               /\ counts[pointer] = hist[Len(hist) - window_size + 1].n]_vars
  /\ [][hist' = <<>> =>
          /\ vals' = [i \in 0..(window_size - 1) |-> 0]
          /\ counts' = [i \in 0..(window_size - 1) |-> 0]
          /\ pointer' = 0
          /\ window_size' = window_size]_vars

C13_Witness ==
  /\ window_size = 2
  /\ hist = <<[val |-> 2, n |-> 3], [val |-> 2, n |-> 3], [val |-> 2, n |-> 3],
              [val |-> 4, n |-> 1], [val |-> 4, n |-> 0]>>
  /\ pointer = 1
  /\ Compute(vals, counts, window_size) = <<8, 1>>

====
